---- MODULE Spec2Model ----
(***************************************************************************)
(* Listener and VectorIndex components of superduperdb.                    *)
(*                                                                         *)
(* Python strings are sequences of one-character strings, so that          *)
(* str.startswith, str.split and str.join are computed and not assumed.    *)
(* A listener key is the record [tag, s, items, names]:                    *)
(*   tag = "str"    s is the string                                        *)
(*   tag = "list"   items are the elements, in order (a list or a tuple)   *)
(*   tag = "dict"   items are the values, names the dict's keys, in order  *)
(*   tag = "other"  any other type (an int, None, ...)                     *)
(***************************************************************************)
EXTENDS Integers, Sequences, FiniteSets, TLC

VARIABLES
    \* the Listener's fields
    key, model, select, identifier, active, predict_kwargs,
    \* the Datalayer and the configuration the Listener talks to
    server_mode, cdc_uri, cdc, requests, jobs, cleanups,
    \* the last operation called on the Listener, its arguments and what it
    \* returned
    op, arg, ret,
    \* the VectorIndex and the calls its last query made on the models and on
    \* the vector searcher
    index_identifier, indexing_listener, compatible_listener, predicted, searched,
    \* the Listeners constructed side by side, those whose job is issued and
    \* not finished, and those whose job has finished
    constructed, waiting, completed,
    \* a DataType (the datatype of the listener's model) and the value given
    \* to its encoder
    datatype, sample,
    \* a predictor and the rows of the table it predicts on
    predictor, rows

lvars == <<key, model, select, identifier, active, predict_kwargs>>
dvars == <<server_mode, cdc_uri, cdc, requests, jobs, cleanups>>
ivars == <<index_identifier, indexing_listener, compatible_listener, predicted, searched>>
gvars == <<constructed, waiting, completed>>
cvars == <<datatype, sample>>
pvars == <<predictor, rows>>
xvars == <<gvars, cvars, pvars>>
vars == <<lvars, dvars, op, arg, ret, ivars, xvars>>

----------------------------------------------------------------------------
\* Bounds

\* dot-separated segments of a generated string key
MaxSegs == 4
\* elements of a generated list or dict key
MaxItems == 2
\* calls recorded in the logs (jobs, requests, cleanups) of a listener
MaxCalls == 2

----------------------------------------------------------------------------
\* Strings

Str_outputs == <<"_", "o", "u", "t", "p", "u", "t", "s">>
Str_base == <<"_", "b", "a", "s", "e">>
Dot == "."
Comma == ","
Slash == "/"

\* the literal '_outputs.' of check_dependable and _id_key
OutputsPrefix == Str_outputs \o <<Dot>>

\* str.startswith
StartsWith(s, p) == Len(s) >= Len(p) /\ SubSeq(s, 1, Len(p)) = p

\* str.split(sep): the segments between the separators, empty ones included
RECURSIVE Split(_, _)
Split(s, sep) ==
    IF \A i \in 1..Len(s) : s[i] # sep
    THEN <<s>>
    ELSE LET i == CHOOSE j \in 1..Len(s) :
                      s[j] = sep /\ \A h \in 1..(j - 1) : s[h] # sep
         IN <<SubSeq(s, 1, i - 1)>> \o Split(SubSeq(s, i + 1, Len(s)), sep)

\* sep.join(parts)
RECURSIVE Join(_, _)
Join(parts, sep) ==
    IF Len(parts) = 0 THEN <<>>
    ELSE IF Len(parts) = 1 THEN parts[1]
    ELSE parts[1] \o <<sep>> \o Join(Tail(parts), sep)

----------------------------------------------------------------------------
\* Keys

StrKey(s) == [tag |-> "str", s |-> s, items |-> <<>>, names |-> <<>>]
ListKey(items) == [tag |-> "list", s |-> <<>>, items |-> items, names |-> <<>>]
DictKey(names, items) == [tag |-> "dict", s |-> <<>>, items |-> items, names |-> names]
OtherKey == [tag |-> "other", s |-> <<>>, items |-> <<>>, names |-> <<>>]

\* the result of a call: a value, or the exception it raised
Ok(v) == [err |-> "none", val |-> v]
Raise(e) == [err |-> e, val |-> <<>>]

----------------------------------------------------------------------------
\* Listener.id_key

\* a plausible slip: the segment after the upstream key is taken
RECURSIVE id_key_third_segment(_)
id_key_third_segment(k) ==
    IF k.tag = "str"
    THEN IF StartsWith(k.s, OutputsPrefix)
         THEN LET parts == Split(k.s, Dot)
              IN IF Len(parts) >= 3 THEN Ok(parts[3]) ELSE Raise("IndexError")
         ELSE Ok(k.s)
    ELSE IF k.tag \in {"list", "dict"}
    THEN LET parts == [i \in 1..Len(k.items) |-> id_key_third_segment(k.items[i])]
         IN IF \E i \in 1..Len(parts) : parts[i].err # "none"
            THEN Raise("TypeError")
            ELSE Ok(Join([i \in 1..Len(parts) |-> parts[i].val], Comma))
    ELSE Raise("TypeError")

\* _id_key(key): the only exception it can raise is the TypeError of a
\* component that is neither a string, a list, a tuple nor a dict
RECURSIVE id_key(_)
id_key(k) ==
    IF k.tag = "str"
    THEN IF StartsWith(k.s, OutputsPrefix)
         THEN Ok(Split(k.s, Dot)[2])
         ELSE Ok(k.s)
    ELSE IF k.tag \in {"list", "dict"}
    THEN LET parts == [i \in 1..Len(k.items) |-> id_key(k.items[i])]
         IN IF \E i \in 1..Len(parts) : parts[i].err # "none"
            THEN Raise("TypeError")
            ELSE Ok(Join([i \in 1..Len(parts) |-> parts[i].val], Comma))
    ELSE Raise("TypeError")

----------------------------------------------------------------------------
\* Listener.dependencies

\* check_dependable(k): what it appends to out, or the exception it raises
check_dependable(k) ==
    IF k.tag # "str"
    THEN Raise("AttributeError")                 \* k.startswith on a non-string
    ELSE IF StartsWith(k.s, OutputsPrefix)
    THEN LET parts == Split(k.s, Dot)
         IN IF Len(parts) # 3
            THEN Raise("ValueError")             \* _, key, model = k.split('.')
            ELSE Ok(<<parts[3] \o <<Slash>> \o parts[2]>>)
    ELSE Ok(<<>>)

\* the loop over the elements of a list key or the values of a dict key
RECURSIVE check_all(_)
check_all(items) ==
    IF Len(items) = 0 THEN Ok(<<>>)
    ELSE LET first == check_dependable(Head(items))
         IN IF first.err # "none" THEN first
            ELSE LET rest == check_all(Tail(items))
                 IN IF rest.err # "none" THEN rest
                    ELSE Ok(first.val \o rest.val)

\* the entries of select.output_fields, f'{v}/{k}' for each field k of model v
output_entries(sel) ==
    [i \in 1..Len(sel.output_fields) |->
        sel.output_fields[i].model \o <<Slash>> \o sel.output_fields[i].field]

dependencies(k, sel) ==
    LET out == IF k.tag = "str" THEN check_dependable(k)
               ELSE IF k.tag \in {"list", "dict"} THEN check_all(k.items)
               ELSE Ok(<<>>)
    IN IF out.err # "none" THEN out
       ELSE IF sel.none THEN Raise("AttributeError")   \* None.output_fields
       ELSE Ok(out.val \o output_entries(sel))

----------------------------------------------------------------------------
\* Listener.__post_init__

\* a model is referred to by its identifier (a string) until pre_create
\* loads it; either way its identifier is model.identifier
Model(resolved, ident) == [resolved |-> resolved, identifier |-> ident]

\* the identifier a Listener gets: the one given, or model/id_key
post_init(given, ident, m, k) ==
    IF given THEN Ok(ident)
    ELSE LET ik == id_key(k)
         IN IF ik.err # "none" THEN ik
            ELSE Ok(m.identifier \o <<Slash>> \o ik.val)

----------------------------------------------------------------------------
\* Inputs

Select(none, variables, has_cleanup, output_fields) ==
    [none |-> none, variables |-> variables, has_cleanup |-> has_cleanup,
     output_fields |-> output_fields]

NoSelect == Select(TRUE, FALSE, FALSE, <<>>)

Atoms == {Str_outputs, <<"x">>, <<"m">>, <<"0">>, <<>>}

\* the strings of one to n atoms joined by dots
SegStrs(atoms, n) ==
    {Join(f, Dot) : f \in UNION {[1..h -> atoms] : h \in 1..n}}

Strings == SegStrs(Atoms, MaxSegs)

\* the first n segments of the path under which the outputs of model m on
\* key x are stored, version 0
StoredPath(n) ==
    Join([i \in 1..n |-> IF i = 1 THEN Str_outputs
                         ELSE IF i = 2 THEN <<"x">>
                         ELSE IF i = 3 THEN <<"m">>
                         ELSE <<"0">>], Dot)

\* the components of list and dict keys: a plain field, the outputs of
\* other listeners, a non-string and a nested list
Items ==
    {StrKey(<<"y">>), StrKey(OutputsPrefix \o <<"y", ".", "n">>)}
    \cup {StrKey(StoredPath(n)) : n \in 2..MaxSegs}
    \cup {OtherKey, ListKey(<<StrKey(<<"x">>)>>)}

ItemSeqs == UNION {[1..h -> Items] : h \in 0..MaxItems}

Names == [i \in 1..(MaxItems + 1) |-> <<"a", "b", "c", "d">>[i]]

Keys ==
    {StrKey(s) : s \in Strings}
    \cup {OtherKey}
    \cup {ListKey(items) : items \in ItemSeqs}
    \cup {DictKey(SubSeq(Names, 1, Len(items)), items) : items \in ItemSeqs}

OutputField(field, m) == [field |-> field, model |-> m]

KeySelects ==
    {NoSelect,
     Select(FALSE, FALSE, FALSE, <<>>),
     Select(FALSE, FALSE, FALSE, <<OutputField(<<"y">>, <<"m">>)>>),
     Select(FALSE, FALSE, FALSE,
            <<OutputField(<<"y">>, <<"m">>), OutputField(<<"x">>, <<"n">>)>>)}

Model_m == Model(TRUE, <<"m">>)

\* a listener of a VectorIndex: absent (None), named by a string until
\* on_load, or loaded
IndexListener(none, resolved, k, m) ==
    [none |-> none, resolved |-> resolved, key |-> k, model |-> m]

NoListener == IndexListener(TRUE, TRUE, OtherKey, <<>>)

\* no Listeners side by side
NoGraph == constructed = {} /\ waiting = {} /\ completed = {}

\* no DataType in use
NoCodec == datatype = <<>> /\ sample = <<>>

\* no predictor in use
NoPredictor == predictor = <<>> /\ rows = <<>>

\* no VectorIndex
NoIndex ==
    /\ index_identifier = <<>>
    /\ indexing_listener = NoListener /\ compatible_listener = NoListener
    /\ predicted = <<>> /\ searched = <<>>

\* the state the key properties do not touch
Idle ==
    /\ server_mode = FALSE /\ cdc_uri = FALSE /\ cdc = {}
    /\ requests = <<>> /\ jobs = <<>> /\ cleanups = <<>>
    /\ NoIndex /\ NoGraph /\ NoCodec /\ NoPredictor

----------------------------------------------------------------------------
\* The life of a Listener: pre_create, post_create, schedule_jobs, cleanup

\* predict_kwargs: None or a dict, here the set of its (name, value) pairs
Kwargs(none, kw) == [none |-> none, kw |-> kw]

LifeKeys ==
    {StrKey(<<"x">>),
     ListKey(<<StrKey(OutputsPrefix \o <<"x", ".", "m">>), StrKey(<<"y">>)>>)}

LifeSelects ==
    {NoSelect} \cup
    {Select(FALSE, v, c, <<>>) : v \in BOOLEAN, c \in BOOLEAN}

LifeKwargs == {Kwargs(TRUE, {}), Kwargs(FALSE, {<<"max_chunk_size", 1>>})}

\* the upstream jobs a caller hands to schedule_jobs
Dependencies == {<<>>, <<"j1", "j2">>, <<"j2", "j1">>}

\* an identifier already registered with db.cdc
Other == <<"o">>

Init ==
    /\ key \in LifeKeys
    /\ model \in {Model(FALSE, <<"m">>), Model(TRUE, <<"m">>)}
    /\ select \in LifeSelects
    /\ \E given \in BOOLEAN :
          LET r == post_init(given, <<"l">>, model, key)
          IN r.err = "none" /\ identifier = r.val
    /\ active \in BOOLEAN
    /\ predict_kwargs \in LifeKwargs
    /\ server_mode \in BOOLEAN
    /\ cdc_uri \in BOOLEAN
    /\ cdc \in {{}, {Other}}
    /\ requests = <<>> /\ jobs = <<>> /\ cleanups = <<>>
    /\ op = "init" /\ arg = <<>> /\ ret = Ok(<<>>)
    /\ NoIndex /\ NoGraph /\ NoCodec /\ NoPredictor

\* the logs have room for another call
Room == Len(jobs) + Len(requests) + Len(cleanups) < MaxCalls

\* pre_create: db.load resolves the model, set_variables binds the select
pre_create ==
    /\ model' = Model(TRUE, model.identifier)
    /\ select' = IF ~select.none /\ select.variables
                 THEN Select(FALSE, FALSE, select.has_cleanup, select.output_fields)
                 ELSE select
    /\ op' = "pre_create" /\ arg' = <<>> /\ ret' = Ok(<<>>)
    /\ UNCHANGED <<key, identifier, active, predict_kwargs, dvars, ivars, xvars>>

\* the request_server call of post_create
AddRequest(name) ==
    [service |-> "cdc", endpoint |-> "listener/add", name |-> name, type |-> "get"]

\* a plausible slip: the server_mode test is dropped
post_create_in_server_mode ==
    /\ Room
    /\ IF ~select.none /\ active
       THEN IF cdc_uri
            THEN /\ requests' = Append(requests, AddRequest(identifier))
                 /\ cdc' = cdc
            ELSE /\ cdc' = cdc \cup {identifier}
                 /\ requests' = requests
       ELSE UNCHANGED <<cdc, requests>>
    /\ op' = "post_create" /\ arg' = <<>> /\ ret' = Ok(<<>>)
    /\ UNCHANGED <<lvars, server_mode, cdc_uri, jobs, cleanups, ivars, xvars>>

\* post_create: db.cdc.add(self) registers the listener under its identifier
post_create ==
    /\ Room
    /\ IF ~select.none /\ active /\ ~server_mode
       THEN IF cdc_uri
            THEN /\ requests' = Append(requests, AddRequest(identifier))
                 /\ cdc' = cdc
            ELSE /\ cdc' = cdc \cup {identifier}
                 /\ requests' = requests
       ELSE UNCHANGED <<cdc, requests>>
    /\ op' = "post_create" /\ arg' = <<>> /\ ret' = Ok(<<>>)
    /\ UNCHANGED <<lvars, server_mode, cdc_uri, jobs, cleanups, ivars, xvars>>

\* the call self.model.predict(X=, db=, select=, dependencies=, **kwargs)
PredictCall(m, X, sel, dependencies_, kw) ==
    [model |-> m.identifier, X |-> X, select |-> sel,
     dependencies |-> dependencies_, kwargs |-> kw]

\* the exception of a failed assert, or of the attribute access that follows
\* it when assertions are disabled
FailedAssert == {"AssertionError", "AttributeError"}

\* a plausible slip: the active test is dropped
schedule_jobs_when_inactive(dependencies_) ==
    /\ Room
    /\ op' = "schedule_jobs" /\ arg' = dependencies_
    /\ IF ~model.resolved
       THEN /\ \E e \in FailedAssert : ret' = Raise(e)
            /\ jobs' = jobs
       ELSE LET job == PredictCall(model, key, select, dependencies_,
                                   IF predict_kwargs.none THEN {}
                                   ELSE predict_kwargs.kw)
            IN /\ jobs' = Append(jobs, job)
               /\ ret' = Ok(<<job>>)
    /\ UNCHANGED <<lvars, server_mode, cdc_uri, cdc, requests, cleanups, ivars, xvars>>

\* a plausible slip: the dependencies are not handed to model.predict
schedule_jobs_without_dependencies(dependencies_) ==
    /\ Room
    /\ op' = "schedule_jobs" /\ arg' = dependencies_
    /\ IF ~active
       THEN /\ ret' = Ok(<<>>)
            /\ jobs' = jobs
       ELSE IF ~model.resolved
       THEN /\ \E e \in FailedAssert : ret' = Raise(e)
            /\ jobs' = jobs
       ELSE LET job == PredictCall(model, key, select, <<>>,
                                   IF predict_kwargs.none THEN {}
                                   ELSE predict_kwargs.kw)
            IN /\ jobs' = Append(jobs, job)
               /\ ret' = Ok(<<job>>)
    /\ UNCHANGED <<lvars, server_mode, cdc_uri, cdc, requests, cleanups, ivars, xvars>>

\* schedule_jobs(db, dependencies): the job is the value model.predict
\* returns; with assertions disabled an unresolved model fails at
\* self.model.predict instead of at the assert
schedule_jobs(dependencies_) ==
    /\ Room
    /\ op' = "schedule_jobs" /\ arg' = dependencies_
    /\ IF ~active
       THEN /\ ret' = Ok(<<>>)
            /\ jobs' = jobs
       ELSE IF ~model.resolved
       THEN /\ \E e \in FailedAssert : ret' = Raise(e)
            /\ jobs' = jobs
       ELSE LET job == PredictCall(model, key, select, dependencies_,
                                   IF predict_kwargs.none THEN {}
                                   ELSE predict_kwargs.kw)
            IN /\ jobs' = Append(jobs, job)
               /\ ret' = Ok(<<job>>)
    /\ UNCHANGED <<lvars, server_mode, cdc_uri, cdc, requests, cleanups, ivars, xvars>>

\* cleanup(database): the model_cleanup hook of the select, if it has one
cleanup ==
    /\ Room
    /\ op' = "cleanup" /\ arg' = <<>>
    /\ IF ~select.none /\ select.has_cleanup
       THEN IF ~model.resolved
            THEN /\ \E e \in FailedAssert : ret' = Raise(e)
                 /\ cleanups' = cleanups
            ELSE /\ cleanups' = Append(cleanups,
                                       [model |-> model.identifier, key |-> key])
                 /\ ret' = Ok(<<>>)
       ELSE /\ ret' = Ok(<<>>)
            /\ cleanups' = cleanups
    /\ UNCHANGED <<lvars, server_mode, cdc_uri, cdc, requests, jobs, ivars, xvars>>

Next ==
    \/ pre_create
    \/ post_create
    \/ \E d \in Dependencies : schedule_jobs(d)
    \/ cleanup

Spec == Init /\ [][Next]_vars

----------------------------------------------------------------------------
\* The key properties of a constructed Listener

InitKey ==
    /\ key \in Keys
    /\ select \in KeySelects
    /\ model = Model_m
    /\ \E given \in BOOLEAN :
          LET r == post_init(given, <<"l">>, model, key)
          IN r.err = "none" /\ identifier = r.val
    /\ active = TRUE
    /\ predict_kwargs = Kwargs(TRUE, {})
    /\ op = "init" /\ arg = <<>> /\ ret = Ok(<<>>)
    /\ Idle

\* self.id_key
GetIdKey ==
    /\ op' = "id_key" /\ arg' = <<>>
    /\ ret' = id_key(key)
    /\ UNCHANGED <<lvars, dvars, ivars, xvars>>

\* self.dependencies
GetDependencies ==
    /\ op' = "dependencies" /\ arg' = <<>>
    /\ ret' = dependencies(key, select)
    /\ UNCHANGED <<lvars, dvars, ivars, xvars>>

NextKey == GetIdKey \/ GetDependencies

SpecKey == InitKey /\ [][NextKey]_vars

----------------------------------------------------------------------------
\* Documents

Str_id == <<"_", "i", "d">>

\* the values of a document: ints, and the dict under '_outputs', here the
\* set of its (name, value) pairs
IntVal(n) == [t |-> "int", n |-> n, d |-> {}]
DictVal(d) == [t |-> "dict", n |-> 0, d |-> d]

Digits == <<"0", "1", "2", "3", "4", "5", "6", "7", "8", "9">>

\* str(n) of a non-negative int
RECURSIVE str(_)
str(n) ==
    IF n < 10 THEN <<Digits[n + 1]>>
    ELSE str(n \div 10) \o <<Digits[(n % 10) + 1]>>

DocFields == {<<"x">>, <<"y">>, <<"z">>, Str_id, Str_outputs}

FieldValue(f) ==
    CASE f = <<"x">> -> IntVal(1)
      [] f = <<"y">> -> IntVal(12)
      [] f = <<"z">> -> IntVal(3)
      [] f = Str_id -> IntVal(27)
      [] f = Str_outputs -> DictVal({<<"k", 1>>})

\* a document is the function from its top-level keys to their values
Documents == {[f \in S |-> FieldValue(f)] : S \in SUBSET DocFields}

\* the outputs argument: None or a dict
Outputs(none, d) == [none |-> none, d |-> d]
OutputsArgs == {Outputs(TRUE, {}), Outputs(FALSE, {}), Outputs(FALSE, {<<"k", 2>>})}

\* dict.update
Update(d, o) == {p \in d : \A q \in o : q[1] # p[1]} \cup o

\* document = MongoStyleDict(like.unpack()) with the outputs merged under
\* '_outputs'
unpack(like, outputs) ==
    IF outputs.none THEN like
    ELSE LET old == IF Str_outputs \in DOMAIN like THEN like[Str_outputs].d ELSE {}
         IN [f \in DOMAIN like \cup {Str_outputs} |->
                IF f = Str_outputs THEN DictVal(Update(old, outputs.d)) ELSE like[f]]

----------------------------------------------------------------------------
\* VectorIndex.get_vector

\* the input handed to a model: one value, a list of values, a dict of named
\* values, or the whole document
Input(shape, value, list, names, document) ==
    [shape |-> shape, value |-> value, list |-> list, names |-> names,
     document |-> document]

NoDocument == [f \in {} |-> IntVal(0)]
ValueInput(v) == Input("value", v, <<>>, <<>>, NoDocument)
ListInput(l) == Input("list", IntVal(0), l, <<>>, NoDocument)
MappingInput(names, l) == Input("mapping", IntVal(0), l, names, NoDocument)
DocumentInput(doc) == Input("document", IntVal(0), <<>>, <<>>, doc)

\* the value model.predict(input, one=True) returns
Prediction(m, input) == [by |-> m, on |-> input]

\* the test a (model, key) pair passes in the loop of get_vector
Matches(k, available_keys) ==
    IF k.tag = "str" THEN k.s \in available_keys
    ELSE IF k.tag \in {"list", "dict"}
    THEN \A i \in 1..Len(k.items) :
            k.items[i].tag = "str" /\ k.items[i].s \in available_keys
    ELSE FALSE

NotFound == [some |-> FALSE, model |-> <<>>, key |-> OtherKey]
Found(m, k) == [some |-> TRUE, model |-> m, key |-> k]

\* for m, k in zip(models, keys): each matching pair overwrites the last
RECURSIVE match_loop(_, _, _, _, _)
match_loop(models, keys, available_keys, i, found) ==
    IF i > Len(models) \/ i > Len(keys) THEN found
    ELSE match_loop(models, keys, available_keys, i + 1,
                    IF Matches(keys[i], available_keys)
                    THEN Found(models[i], keys[i])
                    ELSE found)

\* not key: None, '', [], () and {} are false
Falsy(found) ==
    \/ ~found.some
    \/ found.key.tag = "str" /\ found.key.s = <<>>
    \/ found.key.tag \in {"list", "dict"} /\ found.key.items = <<>>

\* the result of get_vector and the predict calls it made
Outcome(r, calls) == [ret |-> r, predicted |-> calls]

\* from model_input on: document[key] raises KeyError for a key the
\* document does not have
predict_on(document, found) ==
    LET k == found.key
        has(c) == c.tag = "str" /\ c.s \in DOMAIN document
        values == [i \in 1..Len(k.items) |-> document[k.items[i].s]]
        input == IF k.tag = "str" THEN ValueInput(document[k.s])
                 ELSE IF k.tag \in {"list", "dict"} THEN ListInput(values)
                 ELSE DocumentInput(document)
    IN IF \/ k.tag = "str" /\ ~has(k)
          \/ k.tag \in {"list", "dict"} /\ \E i \in 1..Len(k.items) : ~has(k.items[i])
       THEN Outcome(Raise("KeyError"), <<>>)
       ELSE Outcome(Ok([vector |-> Prediction(found.model, input),
                        model |-> found.model, key |-> k]),
                    <<[model |-> found.model, input |-> input, one |-> TRUE]>>)

\* get_vector(like, models, keys, db, outputs): db.models holds the models
\* of the listeners under their identifiers
get_vector(like, models, keys, outputs) ==
    LET document == unpack(like, outputs)
        found == match_loop(models, keys, DOMAIN document, 1, NotFound)
    IN IF Falsy(found)
       THEN IF \E i \in 1..Len(keys) : keys[i] = StrKey(Str_base)
            THEN LET kix == CHOOSE i \in 1..Len(keys) :
                               /\ keys[i] = StrKey(Str_base)
                               /\ \A j \in 1..(i - 1) : keys[j] # StrKey(Str_base)
                 IN predict_on(document, Found(models[kix], keys[kix]))
            ELSE Outcome([err |-> "Exception", val |-> <<keys, models>>], <<>>)
       ELSE predict_on(document, found)

----------------------------------------------------------------------------
\* VectorIndex: on_load, models_keys, get_vector, get_nearest

\* the arguments of a query
Query(like, id_field, outputs, ids, n) ==
    [like |-> like, id_field |-> id_field, outputs |-> outputs, ids |-> ids,
     n |-> n]

\* the ids argument: None or a sequence
Ids(none, seq) == [none |-> none, seq |-> seq]
IdsArgs == {Ids(TRUE, <<>>), Ids(FALSE, <<"a">>)}
IdFields == {Str_id, <<"x">>}
Limits == {1, 100}

IndexKeys ==
    {StrKey(<<"x">>), StrKey(Str_base), StrKey(Str_outputs),
     ListKey(<<StrKey(<<"x">>), StrKey(<<"y">>)>>),
     ListKey(<<>>),
     DictKey(<<"a", "b">>, <<StrKey(<<"y">>), StrKey(<<"x">>)>>)}

\* the keys of the compatible listener
CompatibleKeys ==
    {StrKey(<<"y">>), StrKey(Str_base),
     ListKey(<<StrKey(<<"x">>), StrKey(<<"y">>)>>)}

\* a VectorIndex as constructed with the names of its listeners, or as
\* loaded
InitIndex ==
    /\ index_identifier \in {<<"v">>, <<"w">>}
    /\ \E r \in BOOLEAN :
          /\ \E k \in IndexKeys :
                indexing_listener = IndexListener(FALSE, r, k, <<"m", "1">>)
          /\ \/ compatible_listener = NoListener
             \/ \E k \in CompatibleKeys :
                   compatible_listener = IndexListener(FALSE, r, k, <<"m", "2">>)
    /\ predicted = <<>> /\ searched = <<>>
    /\ key = StrKey(<<"x">>) /\ model = Model_m /\ select = NoSelect
    /\ identifier = <<"l">> /\ active = TRUE
    /\ predict_kwargs = Kwargs(TRUE, {})
    /\ server_mode = FALSE /\ cdc_uri = FALSE /\ cdc = {}
    /\ requests = <<>> /\ jobs = <<>> /\ cleanups = <<>>
    /\ op = "init" /\ arg = <<>> /\ ret = Ok(<<>>)
    /\ NoGraph /\ NoCodec /\ NoPredictor

\* on_load: db.load turns the names of the listeners into the listeners
on_load ==
    /\ op \in {"init", "on_load"}
    /\ indexing_listener' = [indexing_listener EXCEPT !.resolved = TRUE]
    /\ compatible_listener' = [compatible_listener EXCEPT !.resolved = TRUE]
    /\ op' = "on_load" /\ arg' = <<>> /\ ret' = Ok(<<>>)
    /\ UNCHANGED <<lvars, dvars, index_identifier, predicted, searched, xvars>>

\* models_keys: the asserts fail on a listener that is still a string
models_keys ==
    IF ~indexing_listener.resolved \/ ~compatible_listener.resolved
    THEN Raise("AssertionError")
    ELSE LET listeners == IF compatible_listener.none
                          THEN <<indexing_listener>>
                          ELSE <<indexing_listener, compatible_listener>>
         IN Ok([models |-> [i \in 1..Len(listeners) |-> listeners[i].model],
                keys |-> [i \in 1..Len(listeners) |-> listeners[i].key]])

\* get_vector on the models and keys of models_keys
GetVector(like, outputs) ==
    /\ op \in {"init", "on_load"}
    /\ op' = "get_vector"
    /\ arg' = Query(like, Str_id, outputs, Ids(TRUE, <<>>), 100)
    /\ LET mk == models_keys
       IN IF mk.err # "none"
          THEN /\ \E e \in FailedAssert : ret' = Raise(e)
               /\ predicted' = <<>>
          ELSE LET r == get_vector(like, mk.val.models, mk.val.keys, outputs)
               IN ret' = r.ret /\ predicted' = r.predicted
    /\ UNCHANGED <<lvars, dvars, index_identifier, indexing_listener,
                   compatible_listener, searched, xvars>>

\* a call of db.fast_vector_searchers[searcher]
FromId(searcher, id, within_ids, limit) ==
    [method |-> "find_nearest_from_id", searcher |-> searcher, id |-> id,
     h |-> Prediction(<<>>, ValueInput(IntVal(0))), within_ids |-> within_ids,
     n |-> limit]
FromArray(searcher, h, within_ids, n) ==
    [method |-> "find_nearest_from_array", searcher |-> searcher, id |-> <<>>,
     h |-> h, within_ids |-> within_ids, n |-> n]

\* the (ids, scores) a searcher returns for a call
Nearest(call) == [nearest |-> call]

\* a plausible slip: the probe vector is computed before the id is looked at
get_nearest_always_predicts(like, id_field, outputs, ids, n) ==
    /\ op \in {"init", "on_load"}
    /\ op' = "get_nearest"
    /\ arg' = Query(like, id_field, outputs, ids, n)
    /\ LET mk == models_keys
           within_ids == IF ids.none THEN <<>> ELSE ids.seq
       IN IF mk.err # "none"
          THEN /\ \E e \in FailedAssert : ret' = Raise(e)
               /\ predicted' = <<>> /\ searched' = <<>>
          ELSE LET r == get_vector(like, mk.val.models, mk.val.keys, outputs)
               IN IF id_field \in DOMAIN like
                  THEN LET call == FromId(index_identifier, str(like[id_field].n),
                                          within_ids, n)
                       IN /\ searched' = <<call>>
                          /\ predicted' = r.predicted
                          /\ ret' = Ok(Nearest(call))
                  ELSE IF r.ret.err # "none"
                  THEN ret' = r.ret /\ predicted' = r.predicted /\ searched' = <<>>
                  ELSE LET call == FromArray(index_identifier, r.ret.val.vector,
                                             within_ids, n)
                       IN /\ searched' = <<call>>
                          /\ predicted' = r.predicted
                          /\ ret' = Ok(Nearest(call))
    /\ UNCHANGED <<lvars, dvars, index_identifier, indexing_listener,
                   compatible_listener, xvars>>

\* get_nearest(like, db, id_field, outputs, ids, n): a Document is a dict
get_nearest(like, id_field, outputs, ids, n) ==
    /\ op \in {"init", "on_load"}
    /\ op' = "get_nearest"
    /\ arg' = Query(like, id_field, outputs, ids, n)
    /\ LET mk == models_keys
           within_ids == IF ids.none THEN <<>> ELSE ids.seq
       IN IF mk.err # "none"
          THEN /\ \E e \in FailedAssert : ret' = Raise(e)
               /\ predicted' = <<>> /\ searched' = <<>>
          ELSE IF id_field \in DOMAIN like
          THEN LET call == FromId(index_identifier, str(like[id_field].n),
                                  within_ids, n)
               IN /\ searched' = <<call>>
                  /\ predicted' = <<>>
                  /\ ret' = Ok(Nearest(call))
          ELSE LET r == get_vector(like, mk.val.models, mk.val.keys, outputs)
               IN IF r.ret.err # "none"
                  THEN ret' = r.ret /\ predicted' = r.predicted /\ searched' = <<>>
                  ELSE LET call == FromArray(index_identifier, r.ret.val.vector,
                                             within_ids, n)
                       IN /\ searched' = <<call>>
                          /\ predicted' = r.predicted
                          /\ ret' = Ok(Nearest(call))
    /\ UNCHANGED <<lvars, dvars, index_identifier, indexing_listener,
                   compatible_listener, xvars>>

\* a query is made once, on the index as constructed or as loaded
NextIndex ==
    \/ on_load
    \/ /\ op \in {"init", "on_load"}
       /\ \E like \in Documents, outputs \in OutputsArgs : GetVector(like, outputs)
    \/ /\ op \in {"init", "on_load"}
       /\ \E like \in Documents, id_field \in IdFields, outputs \in OutputsArgs,
             ids \in IdsArgs, n \in Limits :
             get_nearest(like, id_field, outputs, ids, n)

SpecIndex == InitIndex /\ [][NextIndex]_vars

----------------------------------------------------------------------------
\* Listeners side by side: construction, scheduling and the run of their jobs

\* Listeners constructed side by side
MaxListeners == 2

\* Listener.outputs, for a model of the given version
Listener_outputs(k, m, version) ==
    LET ik == id_key(k)
    IN IF ik.err # "none" THEN ik
       ELSE Ok(Join(<<Str_outputs, ik.val, m, str(version)>>, Dot))

\* Listener(key=k, model=m, select=...): no identifier is given and
\* __post_init__ derives it; the model is at version 0
Listener(k, m) ==
    [key |-> k, model |-> m,
     identifier |-> post_init(FALSE, <<>>, Model(TRUE, m), k).val,
     outputs |-> Listener_outputs(k, m, 0).val]

GraphModels == {<<"m">>, <<"n">>}

\* a raw field, the outputs of the listeners of m and of n on x, a list of
\* two fields and the one field named by their join
GraphKeys ==
    {StrKey(<<"x">>),
     StrKey(OutputsPrefix \o <<"x", ".", "m">>),
     StrKey(OutputsPrefix \o <<"x", ".", "n">>),
     ListKey(<<StrKey(<<"a">>), StrKey(<<"b">>)>>),
     StrKey(<<"a", ",", "b">>)}

\* the select of every one of them names no output field
GraphSelect == Select(FALSE, FALSE, FALSE, <<>>)

\* the identifiers l.dependencies declares
Declared(l) ==
    LET d == dependencies(l.key, GraphSelect)
    IN {d.val[i] : i \in 1..Len(d.val)}

InitGraph ==
    /\ constructed = {} /\ waiting = {} /\ completed = {}
    /\ key = StrKey(<<"x">>) /\ model = Model_m /\ select = GraphSelect
    /\ identifier = <<"l">> /\ active = TRUE
    /\ predict_kwargs = Kwargs(TRUE, {})
    /\ op = "init" /\ arg = <<>> /\ ret = Ok(<<>>)
    /\ Idle

\* Listener(key=k, model=m)
Construct(k, m) ==
    /\ Cardinality(constructed) < MaxListeners
    /\ LET r == post_init(FALSE, <<>>, Model(TRUE, m), k)
       IN /\ ret' = r
          /\ constructed' = IF r.err = "none"
                            THEN constructed \cup {Listener(k, m)}
                            ELSE constructed
    /\ op' = "__post_init__" /\ arg' = <<>>
    /\ UNCHANGED <<lvars, dvars, ivars, waiting, completed, cvars, pvars>>

\* l.schedule_jobs(db, dependencies): l is active with a loaded model, and
\* the job is issued whatever l.dependencies declares
GraphSchedule(l) ==
    /\ l \notin waiting \cup completed
    /\ waiting' = waiting \cup {l}
    /\ op' = "schedule_jobs" /\ arg' = <<>>
    /\ ret' = Ok(<<l.identifier>>)
    /\ UNCHANGED <<lvars, dvars, ivars, constructed, completed, cvars, pvars>>

\* the job of l runs once the jobs of all the listeners it declares have
\* completed
Complete(l) ==
    /\ \A d \in Declared(l) : \E u \in completed : u.identifier = d
    /\ waiting' = waiting \ {l}
    /\ completed' = completed \cup {l}
    /\ op' = "run" /\ arg' = <<>> /\ ret' = Ok(<<l.identifier>>)
    /\ UNCHANGED <<lvars, dvars, ivars, constructed, cvars, pvars>>

NextGraph ==
    \/ \E k \in GraphKeys, m \in GraphModels : Construct(k, m)
    \/ \E l \in constructed : GraphSchedule(l)
    \/ \E l \in waiting : Complete(l)

SpecGraph == InitGraph /\ [][NextGraph]_vars

----------------------------------------------------------------------------
\* DataTypes: the numpy array codec, vector and sqlvector

\* dimensions of a generated shape
MaxRank == 2

\* the sizes of one dimension
Dims == {1, 2}

Shapes(lo) == UNION {[1..r -> Dims] : r \in lo..MaxRank}

RECURSIVE Product(_)
Product(shape) ==
    IF Len(shape) = 0 THEN 1 ELSE Head(shape) * Product(Tail(shape))

\* a numpy array: its dtype, its shape and its elements in row-major order
ndarray(dtype, shape, data) ==
    [kind |-> "ndarray", dtype |-> dtype, shape |-> shape, data |-> data,
     types |-> <<>>]

\* a (nested) Python list: the nesting as a shape, the numbers in row-major
\* order and, for each, whether it is an int or a float
list(shape, data, types) ==
    [kind |-> "list", dtype |-> "", shape |-> shape, data |-> data,
     types |-> types]

\* numpy.asarray: an array is returned as it is; a list of ints becomes an
\* int64 array, a list with a float in it (or an empty one) a float64 array
asarray(x) ==
    IF x.kind = "ndarray" THEN x
    ELSE ndarray(IF Len(x.data) = 0 \/ \E i \in 1..Len(x.types) : x.types[i] = "float"
                 THEN "float64" ELSE "int64",
                 x.shape, x.data)

\* numpy.dtype(dtype).itemsize
itemsize(dtype) ==
    IF dtype = "int8" THEN 1
    ELSE IF dtype = "int16" THEN 2
    ELSE 8

RECURSIVE Pow2(_)
Pow2(n) == IF n = 0 THEN 1 ELSE 2 * Pow2(n - 1)

\* the position of the leading bit of n > 0
RECURSIVE Log2(_)
Log2(n) == IF n < 2 THEN 0 ELSE 1 + Log2(n \div 2)

\* the w bytes of the two's complement of v, least significant first
RECURSIVE IntBytes(_, _)
IntBytes(v, w) ==
    IF w = 0 THEN <<>> ELSE <<v % 256>> \o IntBytes(v \div 256, w - 1)

\* the int of little-endian two's complement bytes
RECURSIVE BytesInt(_)
BytesInt(b) ==
    IF Len(b) = 1 THEN (IF b[1] >= 128 THEN b[1] - 256 ELSE b[1])
    ELSE b[1] + 256 * BytesInt(Tail(b))

\* the eight bytes of the IEEE 754 double of the integer v, |v| < 2^20,
\* least significant first: sign, 11 bits of exponent, 52 of fraction
FloatBytes(v) ==
    IF v = 0 THEN <<0, 0, 0, 0, 0, 0, 0, 0>>
    ELSE LET a == IF v < 0 THEN -v ELSE v
             e == Log2(a)
             hi == (1023 + e) * Pow2(20) + (a - Pow2(e)) * Pow2(20 - e)
         IN <<0, 0, 0, 0, hi % 256, (hi \div 256) % 256,
              (hi \div 65536) % 256,
              (hi \div 16777216) + (IF v < 0 THEN 128 ELSE 0)>>

\* the integer an IEEE 754 double stands for (the doubles of this model are
\* integers below 2^20)
BytesFloat(b) ==
    IF b = <<0, 0, 0, 0, 0, 0, 0, 0>> THEN 0
    ELSE LET hi == b[5] + 256 * b[6] + 65536 * b[7] + 16777216 * (b[8] % 128)
             e == (hi \div Pow2(20)) - 1023
             a == Pow2(e) + (hi % Pow2(20)) \div Pow2(20 - e)
         IN IF b[8] >= 128 THEN -a ELSE a

ItemBytes(dtype, v) ==
    IF dtype = "float64" THEN FloatBytes(v) ELSE IntBytes(v, itemsize(dtype))

ItemValue(dtype, b) ==
    IF dtype = "float64" THEN BytesFloat(b) ELSE BytesInt(b)

\* memoryview(x).tobytes(): the items of x in row-major order
RECURSIVE tobytes(_, _)
tobytes(dtype, data) ==
    IF Len(data) = 0 THEN <<>>
    ELSE ItemBytes(dtype, Head(data)) \o tobytes(dtype, Tail(data))

\* numpy.frombuffer(bytes, dtype=dtype): a one-dimensional array of
\* len(bytes) / itemsize items
frombuffer(bytes, dtype) ==
    LET w == itemsize(dtype)
    IN IF Len(bytes) % w # 0 THEN Raise("ValueError")
       ELSE Ok(ndarray(dtype, <<Len(bytes) \div w>>,
                       [i \in 1..(Len(bytes) \div w) |->
                           ItemValue(dtype, SubSeq(bytes, (i - 1) * w + 1, i * w))]))

\* ndarray.tolist()
tolist(a) ==
    list(a.shape, a.data,
         [i \in 1..Len(a.data) |-> IF a.dtype = "float64" THEN "float" ELSE "int"])

\* a plausible slip: the input is converted to the declared dtype
numpy_EncodeArray_coercing(dtype, x) ==
    IF x.kind # "ndarray" THEN Raise("AttributeError")
    ELSE Ok(tobytes(dtype, x.data))

\* ext.numpy.encoder.EncodeArray(dtype)(x)
numpy_EncodeArray(dtype, x) ==
    IF x.kind # "ndarray" THEN Raise("AttributeError")        \* x.dtype
    ELSE IF x.dtype # dtype THEN Raise("TypeError")
    ELSE Ok(tobytes(x.dtype, x.data))

\* ext.numpy.encoder.DecodeArray(dtype)(bytes)
numpy_DecodeArray(dtype, bytes) == frombuffer(bytes, dtype)

\* vector_index.EncodeArray(dtype)(x)
EncodeArray(dtype, x) ==
    LET a == asarray(x)
    IN IF a.dtype # dtype THEN Raise("TypeError")
       ELSE Ok(tobytes(a.dtype, a.data))

\* vector_index.DecodeArray(dtype)(bytes)
DecodeArray(dtype, bytes) ==
    LET a == frombuffer(bytes, dtype)
    IN IF a.err # "none" THEN a ELSE Ok(tolist(a.val))

\* a DataType: its encoder and decoder ("none", those of ext.numpy.encoder
\* or those of vector_index), their dtype, and its shape (None or a tuple)
DataType(codec, dtype, shape_none, shape) ==
    [none |-> FALSE, codec |-> codec, dtype |-> dtype,
     shape_none |-> shape_none, shape |-> shape]

\* model.datatype is None
NoDataType ==
    [none |-> TRUE, codec |-> "none", dtype |-> "", shape_none |-> TRUE,
     shape |-> <<>>]

\* ext.numpy.encoder.array(dtype, shape)
array(dtype, shape) == DataType("numpy", dtype, FALSE, shape)

vector(shape) == DataType("none", "", FALSE, shape)

sqlvector(shape) == DataType("sql", "float64", FALSE, shape)

\* datatype.encoder(x)
encode(dt, x) ==
    IF dt.codec = "numpy" THEN numpy_EncodeArray(dt.dtype, x)
    ELSE EncodeArray(dt.dtype, x)

\* datatype.decoder(bytes)
decode(dt, bytes) ==
    IF dt.codec = "numpy" THEN numpy_DecodeArray(dt.dtype, bytes)
    ELSE DecodeArray(dt.dtype, bytes)

Dtypes == {"int8", "int16", "float64"}

\* the DataTypes with an encoder
Codecs ==
    {array(d, s) : d \in Dtypes, s \in Shapes(1)}
    \cup {sqlvector(s) : s \in Shapes(1)}

\* the first element of a generated value; the others count up from it
Starts == {-2, 1}

Counting(start, n) == [i \in 1..n |-> start + i - 1]

\* arrays of every dtype, and lists of floats, of ints, and of an int
\* followed by floats
Samples ==
    {ndarray(d, s, Counting(b, Product(s))) :
        d \in Dtypes, s \in Shapes(1), b \in Starts}
    \cup {list(s, Counting(b, Product(s)),
               [i \in 1..Product(s) |-> IF i <= ints THEN "int" ELSE "float"]) :
            s \in Shapes(1), b \in Starts, ints \in {0, 1, 8}}

InitCodec ==
    /\ datatype \in Codecs
    /\ sample \in Samples
    /\ key = StrKey(<<"x">>) /\ model = Model_m /\ select = NoSelect
    /\ identifier = <<"l">> /\ active = TRUE
    /\ predict_kwargs = Kwargs(TRUE, {})
    /\ op = "init" /\ arg = <<>> /\ ret = Ok(<<>>)
    /\ server_mode = FALSE /\ cdc_uri = FALSE /\ cdc = {}
    /\ requests = <<>> /\ jobs = <<>> /\ cleanups = <<>>
    /\ NoIndex /\ NoGraph /\ NoPredictor

\* datatype.encoder(sample)
Encode ==
    /\ op = "init"
    /\ op' = "encode" /\ arg' = <<>>
    /\ ret' = encode(datatype, sample)
    /\ UNCHANGED <<lvars, dvars, ivars, xvars>>

\* datatype.decoder( the bytes the encoder returned )
Decode ==
    /\ op = "encode" /\ ret.err = "none"
    /\ op' = "decode" /\ arg' = ret.val
    /\ ret' = decode(datatype, ret.val)
    /\ UNCHANGED <<lvars, dvars, ivars, xvars>>

NextCodec == Encode \/ Decode

SpecCodec == InitCodec /\ [][NextCodec]_vars

----------------------------------------------------------------------------
\* VectorIndex.dimensions

\* the shapes a DataType may declare, the empty tuple included
DeclaredShapes == UNION {[1..r -> {2, 4}] : r \in 0..MaxRank}

\* model.datatype of the indexing listener's model: None, a DataType made
\* without a shape, or one made by array, vector or sqlvector
Datatypes ==
    {NoDataType, DataType("none", "", TRUE, <<>>)}
    \cup {array(d, s) : d \in Dtypes, s \in DeclaredShapes}
    \cup {vector(s) : s \in DeclaredShapes}
    \cup {sqlvector(s) : s \in DeclaredShapes}

\* getattr(datatype, 'shape', None)
getattr_shape(dt) ==
    IF dt.none \/ dt.shape_none THEN [none |-> TRUE, shape |-> <<>>]
    ELSE [none |-> FALSE, shape |-> dt.shape]

\* a VectorIndex with its indexing listener, named or loaded, whose model,
\* named or loaded, has the datatype
InitDims ==
    /\ index_identifier = <<"v">>
    /\ \E r \in BOOLEAN :
          indexing_listener = IndexListener(FALSE, r, StrKey(<<"x">>), <<"m">>)
    /\ compatible_listener = NoListener
    /\ predicted = <<>> /\ searched = <<>>
    /\ model \in {Model(FALSE, <<"m">>), Model(TRUE, <<"m">>)}
    /\ datatype \in Datatypes
    /\ sample = <<>>
    /\ key = StrKey(<<"x">>) /\ select = NoSelect
    /\ identifier = <<"l">> /\ active = TRUE
    /\ predict_kwargs = Kwargs(TRUE, {})
    /\ server_mode = FALSE /\ cdc_uri = FALSE /\ cdc = {}
    /\ requests = <<>> /\ jobs = <<>> /\ cleanups = <<>>
    /\ op = "init" /\ arg = <<>> /\ ret = Ok(<<>>)
    /\ NoGraph /\ NoPredictor

\* a plausible slip: the first component of the shape
dimensions_first_component ==
    /\ op' = "dimensions" /\ arg' = <<>>
    /\ IF ~indexing_listener.resolved \/ ~model.resolved
       THEN \E e \in FailedAssert : ret' = Raise(e)
       ELSE LET shape == getattr_shape(datatype)
            IN IF ~shape.none /\ Len(shape.shape) > 0
               THEN ret' = Ok(shape.shape[1])
               ELSE ret' = Raise("ValueError")
    /\ UNCHANGED <<lvars, dvars, ivars, xvars>>

\* self.dimensions: None and the empty tuple are both falsy
dimensions ==
    /\ op' = "dimensions" /\ arg' = <<>>
    /\ IF ~indexing_listener.resolved \/ ~model.resolved
       THEN \E e \in FailedAssert : ret' = Raise(e)
       ELSE LET shape == getattr_shape(datatype)
            IN IF ~shape.none /\ Len(shape.shape) > 0
               THEN ret' = Ok(shape.shape[Len(shape.shape)])
               ELSE ret' = Raise("ValueError")
    /\ UNCHANGED <<lvars, dvars, ivars, xvars>>

\* db.load of the index, of the listener and of its model
LoadDims ==
    /\ ~indexing_listener.resolved \/ ~model.resolved
    /\ indexing_listener' = [indexing_listener EXCEPT !.resolved = TRUE]
    /\ model' = Model(TRUE, model.identifier)
    /\ op' = "on_load" /\ arg' = <<>> /\ ret' = Ok(<<>>)
    /\ UNCHANGED <<key, select, identifier, active, predict_kwargs, dvars,
                   index_identifier, compatible_listener, predicted, searched,
                   xvars>>

NextDims == dimensions \/ LoadDims

SpecDims == InitDims /\ [][NextDims]_vars

----------------------------------------------------------------------------
\* The predictor: predict_one, forward, predict and predict_with_select.
\* Numbers are counted in tenths, so that x + 0.1 stays an integer.

\* items of a generated batch
MaxBatch == 2
\* rows of a generated table
MaxRows == 2

\* to_call of the tests: five times x, element by element on a list
to_call(x) == x * 5

to_call_list(X) == [i \in 1..Len(X) |-> to_call(X[i])]

\* preprocess of the tests: x + 1
preprocess(x) == x + 10

\* postprocess of the tests: x + 0.1
postprocess(x) == x + 1

\* a predictor: whether its preprocess and postprocess hooks are set (to the
\* functions above) and whether its callable takes a whole batch
Predictor(pre, post, batch_predict) ==
    [preprocess |-> pre, postprocess |-> post, batch_predict |-> batch_predict]

\* predict_one(x): preprocess if set, the callable, postprocess if set
predict_one(p, x) ==
    LET a == IF p.preprocess THEN preprocess(x) ELSE x
        b == to_call(a)
    IN IF p.postprocess THEN postprocess(b) ELSE b

\* forward(batch, num_workers): the callable on the whole batch, or on each
\* item in turn (by a pool of workers that keeps the order when
\* num_workers > 0)
forward(p, X, num_workers) ==
    IF p.batch_predict THEN to_call_list(X)
    ELSE [i \in 1..Len(X) |-> to_call(X[i])]

\* a plausible slip: postprocess is applied only when preprocess is set too
predict_postprocess_with_preprocess(p, X, num_workers) ==
    LET A == IF p.preprocess THEN [i \in 1..Len(X) |-> preprocess(X[i])] ELSE X
        B == forward(p, A, num_workers)
    IN IF p.postprocess /\ p.preprocess
       THEN [i \in 1..Len(B) |-> postprocess(B[i])] ELSE B

\* predict(X): every element preprocessed, forward, every element
\* postprocessed
predict(p, X, num_workers) ==
    LET A == IF p.preprocess THEN [i \in 1..Len(X) |-> preprocess(X[i])] ELSE X
        B == forward(p, A, num_workers)
    IN IF p.postprocess THEN [i \in 1..Len(B) |-> postprocess(B[i])] ELSE B

\* a row of the table: its id, whether the select matches it and whether it
\* carries the output of this predictor
Row(id, matched, has_output) ==
    [id |-> id, matched |-> matched, has_output |-> has_output]

\* db.execute(query): the rows the select matches, for the query of
\* select_ids_of_missing_outputs those without the output, in the order of
\* the store
RECURSIVE execute(_, _)
execute(table, missing) ==
    IF Len(table) = 0 THEN <<>>
    ELSE LET r == Head(table)
             rest == execute(Tail(table), missing)
         IN IF r.matched /\ (~missing \/ ~r.has_output)
            THEN <<r>> \o rest ELSE rest

\* a plausible slip: the missing outputs are selected when overwrite is set
predict_with_select_swapped(table, overwrite) ==
    LET result == execute(table, overwrite)
    IN [i \in 1..Len(result) |-> result[i].id]

\* predict_with_select(X, select, db, overwrite): the ids handed to
\* predict_with_select_and_ids
predict_with_select(table, overwrite) ==
    LET result == execute(table, ~overwrite)
    IN [i \in 1..Len(result) |-> result[i].id]

Predictors ==
    {Predictor(pre, post, b) : pre \in BOOLEAN, post \in BOOLEAN, b \in BOOLEAN}

BatchItems == {-10, 0, 20}

Batches == UNION {[1..n -> BatchItems] : n \in 0..MaxBatch}

\* the ids of the rows, in one order of the store and in the other
StoreIds == {<<"1", "2", "3", "4">>, <<"4", "3", "2", "1">>}

Tables ==
    UNION {{[i \in 1..n |-> Row(ids[i], f[i][1], f[i][2])] :
               ids \in StoreIds, f \in [1..n -> BOOLEAN \X BOOLEAN]} :
           n \in 0..MaxRows}

InitPredict ==
    /\ predictor \in Predictors
    /\ rows \in Tables
    /\ key = StrKey(<<"x">>) /\ model = Model_m /\ select = NoSelect
    /\ identifier = <<"l">> /\ active = TRUE
    /\ predict_kwargs = Kwargs(TRUE, {})
    /\ op = "init" /\ arg = <<>> /\ ret = Ok(<<>>)
    /\ server_mode = FALSE /\ cdc_uri = FALSE /\ cdc = {}
    /\ requests = <<>> /\ jobs = <<>> /\ cleanups = <<>>
    /\ NoIndex /\ NoGraph /\ NoCodec

\* predictor.predict(x, one=True)
PredictOne(x) ==
    /\ op' = "predict_one" /\ arg' = <<x>>
    /\ ret' = Ok(predict_one(predictor, x))
    /\ UNCHANGED <<lvars, dvars, ivars, xvars>>

\* predictor.predict(X, num_workers=num_workers)
Predict(X, num_workers) ==
    /\ op' = "predict" /\ arg' = X
    /\ ret' = Ok(predict(predictor, X, num_workers))
    /\ UNCHANGED <<lvars, dvars, ivars, xvars>>

\* predictor.predict(X, db=db, select=select, overwrite=overwrite)
PredictWithSelect(overwrite) ==
    /\ op' = "predict_with_select" /\ arg' = <<overwrite>>
    /\ ret' = Ok(predict_with_select(rows, overwrite))
    /\ UNCHANGED <<lvars, dvars, ivars, xvars>>

\* one call is made on a predictor
NextPredict ==
    \/ /\ op = "init"
       /\ \E x \in BatchItems : PredictOne(x)
    \/ /\ op = "init"
       /\ \E X \in Batches, num_workers \in {0, 1} : Predict(X, num_workers)
    \/ /\ op = "init"
       /\ \E overwrite \in BOOLEAN : PredictWithSelect(overwrite)

SpecPredict == InitPredict /\ [][NextPredict]_vars

----------------------------------------------------------------------------
\* Properties of id_key and dependencies (SpecKey)

\* the characters of s after '_outputs.' up to the next dot or the end
SecondSegment(s) ==
    LET from == Len(OutputsPrefix) + 1
        upto == CHOOSE e \in (from - 1)..Len(s) :
                    /\ \A i \in from..e : s[i] # Dot
                    /\ e = Len(s) \/ s[e + 1] = Dot
    IN SubSeq(s, from, upto)

\* the components of a key: the string itself, the elements, the values
Components(k) == IF k.tag = "str" THEN <<k>> ELSE k.items

\* C4: id_key is a function of key alone: a plain string is returned
\* unchanged, a string prefixed '_outputs.' gives its second dot-separated
\* segment, a list, tuple or dict gives the comma-join of the id_keys of its
\* elements or values in order, any other key raises TypeError; evaluating
\* it changes no field of the listener and evaluating it again returns the
\* same string.
C4_IdKeyValue ==
    op = "id_key" =>
        /\ (key.tag = "str" /\ ~StartsWith(key.s, OutputsPrefix))
              => ret = Ok(key.s)
        /\ (key.tag = "str" /\ StartsWith(key.s, OutputsPrefix))
              => ret = Ok(SecondSegment(key.s))
        /\ (key.tag \in {"list", "dict"})
              => IF \A i \in 1..Len(key.items) : id_key(key.items[i]).err = "none"
                 THEN ret = Ok(Join([i \in 1..Len(key.items) |->
                                        id_key(key.items[i]).val], Comma))
                 ELSE ret.err = "TypeError"
        /\ key.tag = "other" => ret.err = "TypeError"

C4_IdKeyPure ==
    /\ []C4_IdKeyValue
    /\ [][op' = "id_key" =>
             /\ UNCHANGED <<lvars, dvars>>
             /\ op = "id_key" => ret' = ret]_vars

\* C4 witness: the id_key of the list ['_outputs.x.m', 'y'] is 'x,y'
C4_Witness ==
    /\ op = "id_key"
    /\ key = ListKey(<<StrKey(OutputsPrefix \o <<"x", ".", "m">>), StrKey(<<"y">>)>>)
    /\ ret = Ok(<<"x", ",", "y">>)

\* the entry the claim gives a component: model/key of the upstream listener
RECURSIVE claimed_entries(_)
claimed_entries(items) ==
    IF Len(items) = 0 THEN <<>>
    ELSE LET k == Head(items)
             parts == Split(k.s, Dot)
         IN (IF k.tag = "str" /\ StartsWith(k.s, OutputsPrefix) /\ Len(parts) >= 3
             THEN <<parts[3] \o <<Slash>> \o parts[2]>>
             ELSE <<>>)
            \o claimed_entries(Tail(items))

\* a string component that names the key and the model of an upstream
\* listener, or none
NamesUpstream(c) ==
    /\ c.tag = "str"
    /\ StartsWith(c.s, OutputsPrefix) => Len(Split(c.s, Dot)) >= 3

\* C5: dependencies is defined for every key for which id_key is defined
\* and whose prefixed components name an upstream key and model (the stored
\* path '_outputs.<key>.<model>.<version>' included) and returns one entry
\* '<model>/<key>' for each component prefixed '_outputs.', in key order,
\* followed by one entry per output field of the select.
C5_Dependencies ==
    (/\ op = "dependencies"
     /\ id_key(key).err = "none"
     /\ \A i \in 1..Len(Components(key)) : NamesUpstream(Components(key)[i])
     /\ ~select.none) =>
        /\ ret.err = "none"
        /\ ret.val = claimed_entries(Components(key)) \o output_entries(select)

----------------------------------------------------------------------------
\* Properties of the life of a Listener (Spec)

\* C2: schedule_jobs on an inactive listener returns the empty list and
\* calls model.predict for no job, also while the model is still a string.
C2_InactiveSchedulesNothing ==
    ~active => /\ jobs = <<>>
               /\ op = "schedule_jobs" => ret = Ok(<<>>)

\* C2 witness: schedule_jobs has returned on an inactive listener whose model
\* is an unresolved string
C2_Witness ==
    op = "schedule_jobs" /\ ~active /\ ~model.resolved /\ ret = Ok(<<>>)

\* C3: each schedule_jobs on an active listener with a resolved model calls
\* model.predict exactly once, with X the key, the select, the
\* predict_kwargs (none for None) and the dependencies it was given, and
\* returns the list of that one job.
C3_OneJobPerCall ==
    [][(op' = "schedule_jobs" /\ active /\ model.resolved) =>
          LET job == [model |-> model.identifier, X |-> key, select |-> select,
                      dependencies |-> arg', kwargs |-> predict_kwargs.kw]
          IN /\ jobs' = jobs \o <<job>>
             /\ ret' = Ok(<<job>>)
             /\ Len(ret'.val) = 1]_vars

\* C3 witness: a second call has issued a second job with two dependencies
C3_Witness ==
    /\ op = "schedule_jobs" /\ active /\ model.resolved
    /\ Len(jobs) = 2
    /\ arg = <<"j2", "j1">>
    /\ jobs[2].dependencies = <<"j2", "j1">>
    /\ predict_kwargs.kw # {}

\* C9: after cleanup the CDC registry does not hold the listener, also when
\* post_create had registered it.
C9_CleanupUnregisters ==
    (op = "cleanup" /\ ret.err = "none") => identifier \notin cdc

\* C10: post_create registers the listener only when the listener has a
\* select, is active and the process is not in server mode, and then by one
\* route: the remote 'listener/add' request named by the identifier when a
\* CDC uri is configured, db.cdc.add otherwise; in every other case neither
\* the registry nor the requests change.
C10_PostCreateRoutes ==
    [][op' = "post_create" =>
          IF select.none \/ ~active \/ server_mode
          THEN cdc' = cdc /\ requests' = requests
          ELSE /\ cdc_uri =>
                    /\ requests' = Append(requests, AddRequest(identifier))
                    /\ cdc' = cdc
               /\ ~cdc_uri =>
                    /\ cdc' = cdc \cup {identifier}
                    /\ requests' = requests]_vars

\* C10 witness: one remote request made, nothing registered locally
C10_Witness ==
    /\ op = "post_create" /\ ~server_mode /\ cdc_uri /\ active
    /\ requests = <<AddRequest(identifier)>>
    /\ identifier \notin cdc

----------------------------------------------------------------------------
\* Properties of the queries on a VectorIndex (SpecIndex)

\* the document of the last query, the outputs merged in
QueryDocument == unpack(arg.like, arg.outputs)

\* the fields a key requires of a document
Required(k) ==
    IF k.tag = "str" THEN {k.s}
    ELSE {k.items[i].s : i \in 1..Len(k.items)}

\* a key whose required fields are all among the top-level keys of doc
AllPresent(k, doc) == Required(k) # {} /\ Required(k) \subseteq DOMAIN doc

\* the values of the fields of a list or dict key, in order
FieldValues(k, doc) == [i \in 1..Len(k.items) |-> doc[k.items[i].s]]

\* C1: get_vector resolves to the first (model, key) pair of models_keys
\* whose required fields are all top-level keys of the document, also when
\* the pairs of both listeners match.
C1_FirstMatchWins ==
    (op = "get_vector" /\ models_keys.err = "none") =>
        LET models == models_keys.val.models
            keys == models_keys.val.keys
            matching == {i \in 1..Len(keys) : AllPresent(keys[i], QueryDocument)}
        IN matching # {} =>
              LET first == CHOOSE i \in matching : \A j \in matching : i <= j
              IN /\ ret.err = "none"
                 /\ ret.val.model = models[first]
                 /\ ret.val.key = keys[first]

C7_InputByKeyShape ==
    (op = "get_vector" /\ ret.err = "none") =>
        LET k == ret.val.key
            input == IF k.tag = "str" THEN ValueInput(QueryDocument[k.s])
                     ELSE IF k.tag = "list"
                     THEN ListInput(FieldValues(k, QueryDocument))
                     ELSE MappingInput(k.names, FieldValues(k, QueryDocument))
        IN /\ \E i \in 1..Len(models_keys.val.keys) :
                 /\ models_keys.val.keys[i] = k
                 /\ models_keys.val.models[i] = ret.val.model
           /\ ret.val.vector = Prediction(ret.val.model, input)
           /\ predicted = <<[model |-> ret.val.model, input |-> input, one |-> TRUE]>>

\* C8: get_nearest on a document that has the id field calls
\* find_nearest_from_id with str(id), within_ids and limit n and calls no
\* model; on any other document it calls find_nearest_from_array with the
\* vector of get_vector, within_ids and n, or fails as get_vector fails; the
\* searcher is the one under the identifier of the index and what it returns
\* is returned.
C8_NearestPaths ==
    (op = "get_nearest" /\ models_keys.err = "none") =>
        LET within_ids == IF arg.ids.none THEN <<>> ELSE arg.ids.seq
            r == get_vector(arg.like, models_keys.val.models,
                            models_keys.val.keys, arg.outputs)
        IN /\ \A i \in 1..Len(searched) : searched[i].searcher = index_identifier
           /\ ret.err = "none" => Len(searched) = 1 /\ ret.val = Nearest(searched[1])
           /\ ret.err # "none" => searched = <<>>
           /\ arg.id_field \in DOMAIN arg.like =>
                 /\ ret.err = "none"
                 /\ predicted = <<>>
                 /\ searched[1].method = "find_nearest_from_id"
                 /\ searched[1].id = str(arg.like[arg.id_field].n)
                 /\ searched[1].within_ids = within_ids
                 /\ searched[1].n = arg.n
           /\ arg.id_field \notin DOMAIN arg.like =>
                 /\ ret.err = r.ret.err
                 /\ predicted = r.predicted
                 /\ ret.err = "none" =>
                       /\ searched[1].method = "find_nearest_from_array"
                       /\ searched[1].h = r.ret.val.vector
                       /\ searched[1].h =
                             Prediction(predicted[1].model, predicted[1].input)
                       /\ searched[1].within_ids = within_ids
                       /\ searched[1].n = arg.n

\* C8 witness: a document with '_id' 27 and the field of the indexing
\* listener was searched by the id '27' among the ids given, no model called
C8_Witness ==
    /\ op = "get_nearest"
    /\ arg.id_field = Str_id
    /\ indexing_listener.key = StrKey(<<"x">>)
    /\ <<"x">> \in DOMAIN arg.like
    /\ arg.n = 1
    /\ predicted = <<>>
    /\ searched = <<FromId(index_identifier, <<"2", "7">>, <<"a">>, 1)>>
    /\ ret = Ok(Nearest(searched[1]))

----------------------------------------------------------------------------
\* Properties of listeners side by side (SpecGraph)

\* the constructed listeners whose identifier l declares as a dependency
Upstream(l) == {u \in constructed : u.identifier \in Declared(l)}

\* the listeners reached from those of S along at most n declared
\* dependencies
RECURSIVE Reach(_, _)
Reach(S, n) ==
    IF n = 0 THEN S
    ELSE Reach(S \cup UNION {Upstream(u) : u \in S}, n - 1)

\* l is on a cycle of declared dependencies
OnCycle(l) == l \in Reach(Upstream(l), MaxListeners)

\* C11: a listener whose declared dependencies form a cycle, a listener
\* that declares its own identifier included, is rejected when it is
\* constructed or scheduled: no job is ever issued for it, so that no job
\* waits on a cycle.
C11_CyclesRejected == \A l \in waiting : ~OnCycle(l)

\* C17: two constructed listeners of the same model (same identifier and
\* version) with different keys have different identifiers and different
\* output paths.
C17_KeysNamespaced ==
    \A l1 \in constructed, l2 \in constructed :
        l1.model = l2.model /\ l1.key # l2.key
            => l1.identifier # l2.identifier /\ l1.outputs # l2.outputs

----------------------------------------------------------------------------
\* Properties of the codecs (SpecCodec)

\* the array the encoder compares with its dtype: the input itself for the
\* numpy codec, numpy.asarray of it for the sqlvector codec
Presented == IF datatype.codec = "numpy" THEN sample ELSE asarray(sample)

\* the input has a dtype
HasDtype == Presented.kind = "ndarray"

\* the input is a value of the declared dtype and the declared shape
Conforms ==
    HasDtype /\ Presented.dtype = datatype.dtype /\ sample.shape = datatype.shape

\* the items of the buffer b, w bytes each
Chunks(b, w) == [i \in 1..(Len(b) \div w) |-> SubSeq(b, (i - 1) * w + 1, i * w)]

\* C12: a value of the declared dtype and shape is encoded, and decoding
\* the bytes gives the value back: the same shape and the same elements in
\* the same order, for the numpy array codec and for the sqlvector codec.
C12_RoundTrip ==
    /\ op = "encode" /\ Conforms => ret.err = "none"
    /\ op = "decode" /\ Conforms =>
          /\ ret.err = "none"
          /\ ret.val.shape = sample.shape
          /\ ret.val.data = sample.data

----------------------------------------------------------------------------
\* Properties of VectorIndex.dimensions (SpecDims)

\* the datatype of the model declares a shape of at least one component
DeclaresShape == ~datatype.none /\ ~datatype.shape_none /\ Len(datatype.shape) > 0

\* C14: on a loaded index, dimensions returns the last component of the
\* shape the datatype of the indexing listener's model declares, and raises
\* ValueError when the datatype is absent or declares no shape; it never
\* returns a number that is not that last component.
C14_Dimensions ==
    op = "dimensions" =>
        /\ ret.err = "none" =>
              DeclaresShape /\ ret.val = datatype.shape[Len(datatype.shape)]
        /\ indexing_listener.resolved /\ model.resolved =>
              IF DeclaresShape
              THEN ret = Ok(datatype.shape[Len(datatype.shape)])
              ELSE ret = Raise("ValueError")

\* dimensions returned 4 for outputs of shape (2, 4)
C14_Witness ==
    /\ op = "dimensions"
    /\ ~datatype.none /\ datatype.shape = <<2, 4>>
    /\ ret = Ok(4)

----------------------------------------------------------------------------
\* Properties of the predictor (SpecPredict)

\* postprocess(to_call(preprocess(x))) with the unset hooks left out
Hooked(x) ==
    IF predictor.preprocess /\ predictor.postprocess
    THEN postprocess(to_call(preprocess(x)))
    ELSE IF predictor.preprocess THEN to_call(preprocess(x))
    ELSE IF predictor.postprocess THEN postprocess(to_call(x))
    ELSE to_call(x)

MatchedIds(fresh) ==
    LET keep == {i \in 1..Len(rows) :
                    rows[i].matched /\ (fresh => ~rows[i].has_output)}
        nth[k \in 0..Len(rows)] ==
            IF k = 0 THEN <<>>
            ELSE IF k \in keep THEN Append(nth[k - 1], rows[k].id)
            ELSE nth[k - 1]
    IN nth[Len(rows)]

\* C16: with overwrite=False the ids handed on are those of the matched
\* rows lacking the output, with overwrite=True those of all the matched
\* rows, in both cases in the order of the store.
C16_IdsBySelect ==
    op = "predict_with_select" => ret = Ok(MatchedIds(~arg[1]))

\* overwrite=False on a table with a matched row that has the output and a
\* matched row that lacks it
C16_Witness ==
    /\ op = "predict_with_select" /\ arg = <<FALSE>>
    /\ \E i \in 1..Len(rows) : rows[i].matched /\ rows[i].has_output
    /\ \E i \in 1..Len(rows) : rows[i].matched /\ ~rows[i].has_output
    /\ Len(ret.val) = 1

====
